---- MODULE Spec2Model ----
(***************************************************************************)
(* r-nacos: the naming Service registry (src/naming/service.rs), the raft   *)
(* cache codec (src/raft/cache/model.rs) and the console login handler     *)
(* (src/console/login_api.rs).                                             *)
(*                                                                         *)
(* The registry is modelled as pure operators over a Service value `self`  *)
(* (instances, timeinfos, instance_size) plus the Arc heap the instance    *)
(* map points into; the actions apply the operators to the state.          *)
(***************************************************************************)
EXTENDS Integers, Sequences, FiniteSets, TLC

VARIABLES
    instances,      \* Service.instances: instance id -> address of its Arc<Instance>
    timeinfos,      \* Service.timeinfos
    instance_size,  \* Service.instance_size
    heap,           \* the Arc<Instance> allocations
    held,           \* the snapshots readers hold
    ret,            \* the last call on the Service and what it returned
    wire,           \* the CacheItemDo a cache caller has at hand
    out,            \* the last call on the cache codec and what it returned
    login           \* one call of the login handler: where it is and what it did

registry == <<instances, timeinfos, instance_size, heap, held, ret>>
codec == <<wire, out>>
console == <<login>>
vars == <<registry, codec, console>>

----------------------------------------------------------------------------
(* Bounds of the model *)

\* instance timestamps are drawn from 1..MaxTime, thresholds from 0..MaxTime
MaxTime == 2
\* cap on the length of the timeinfos list
MaxTimeinfos == 2
\* cap on the number of Arc<Instance> snapshots readers hold at once
MaxHeld == 1
\* the longest stored key handed to from_db_key, in bytes
MaxKeyLen == 4

\* the instance ids, in a fixed order
IdSeq == <<"A", "B">>
Ids == {IdSeq[i] : i \in DOMAIN IdSeq}
Times == 1 .. MaxTime
Thresholds == 0 .. MaxTime

\* Addresses of Arc<Instance> allocations: one per map entry, one per
\* snapshot a reader holds, one for the allocation made before the old
\* entry is dropped.
Addr == 1 .. (Cardinality(Ids) + MaxHeld + 1)

----------------------------------------------------------------------------
(* Data *)

Instance(id, enabled, healthy, ephemeral, weight, metadata, time) ==
    [id |-> id, enabled |-> enabled, healthy |-> healthy,
     ephemeral |-> ephemeral, weight |-> weight, metadata |-> metadata,
     last_modified_millis |-> time]

\* content of a deallocated cell (never read)
NoInstance == Instance("", FALSE, FALSE, FALSE, 0, "", 0)

FreeCell == [strong |-> 0, data |-> NoInstance]

\* Option<InstanceUpdateTag>: `some` is FALSE for None
InstanceUpdateTag(some, enabled, ephemeral, weight, metadata) ==
    [some |-> some, enabled |-> enabled, ephemeral |-> ephemeral,
     weight |-> weight, metadata |-> metadata]

NoneTag == InstanceUpdateTag(FALSE, FALSE, FALSE, FALSE, FALSE)

AllTags ==
    {NoneTag} \cup
    {InstanceUpdateTag(TRUE, e, p, w, m) : e \in BOOLEAN, p \in BOOLEAN,
                                           w \in BOOLEAN, m \in BOOLEAN}

\* InstanceUpdateTag::is_none: no field is flagged as changed
is_none(update_tag) ==
    ~update_tag.enabled /\ ~update_tag.ephemeral
        /\ ~update_tag.weight /\ ~update_tag.metadata

\* Instance::get_time_info
get_time_info(instance) ==
    [instance_id |-> instance.id, time |-> instance.last_modified_millis,
     enable |-> TRUE]

\* the Service value the operators work on
Service(ins, tis, size, hp) ==
    [instances |-> ins, timeinfos |-> tis, instance_size |-> size, heap |-> hp]

Self == Service(instances, timeinfos, instance_size, heap)

----------------------------------------------------------------------------
(* Arc<Instance> *)

FreeAddrs(hp) == {a \in Addr : hp[a].strong = 0}

\* Arc::new: a fresh allocation with strong count 1
ArcNew(hp, data) ==
    LET a == CHOOSE x \in FreeAddrs(hp) : \A y \in FreeAddrs(hp) : x <= y
    IN  [heap |-> [hp EXCEPT ![a] = [strong |-> 1, data |-> data]], ref |-> a]

\* Arc::clone: one more owner of the same allocation
ArcClone(hp, a) == [hp EXCEPT ![a].strong = @ + 1]

\* Drop for Arc: the allocation is freed with its last owner
ArcDrop(hp, a) ==
    IF hp[a].strong = 1 THEN [hp EXCEPT ![a] = FreeCell]
    ELSE [hp EXCEPT ![a].strong = @ - 1]

\* HashMap::insert / HashMap::remove on the instance map
MapInsert(m, k, v) == [x \in DOMAIN m \cup {k} |-> IF x = k THEN v ELSE m[x]]
MapRemove(m, k) == [x \in DOMAIN m \ {k} |-> m[x]]

\* the Instance an id is mapped to
Stored(self, id) == self.heap[self.instances[id]].data

----------------------------------------------------------------------------
(* Service *)

\* update_timeinfos that forgets to disable the earlier records of the id
update_timeinfos_append_only(tis, time_info) == Append(tis, time_info)

\* update_timeinfos that disables the records of every id
update_timeinfos_disable_all(tis, time_info) ==
    Append([i \in 1 .. Len(tis) |-> [tis[i] EXCEPT !.enable = FALSE]], time_info)

\* Service::update_timeinfos
update_timeinfos(tis, time_info) ==
    Append([i \in 1 .. Len(tis) |->
               IF tis[i].instance_id = time_info.instance_id
               THEN [tis[i] EXCEPT !.enable = FALSE]
               ELSE tis[i]],
           time_info)

\* the merge that keeps the stored healthy flag
MergeInstance_keeps_healthy(old_instance, instance, update_tag) ==
    IF update_tag.some /\ ~is_none(update_tag)
    THEN [instance EXCEPT
            !.healthy   = old_instance.healthy,
            !.enabled   = IF ~update_tag.enabled THEN old_instance.enabled ELSE @,
            !.ephemeral = IF ~update_tag.ephemeral THEN old_instance.ephemeral ELSE @,
            !.weight    = IF ~update_tag.weight THEN old_instance.weight ELSE @,
            !.metadata  = IF ~update_tag.metadata THEN old_instance.metadata ELSE @]
    ELSE [instance EXCEPT !.healthy = old_instance.healthy]

\* the merge with the weight copied under the metadata flag
MergeInstance_wrong_flag(old_instance, instance, update_tag) ==
    IF update_tag.some /\ ~is_none(update_tag)
    THEN [instance EXCEPT
            !.enabled   = IF ~update_tag.enabled THEN old_instance.enabled ELSE @,
            !.ephemeral = IF ~update_tag.ephemeral THEN old_instance.ephemeral ELSE @,
            !.weight    = IF ~update_tag.metadata THEN old_instance.weight ELSE @,
            !.metadata  = IF ~update_tag.metadata THEN old_instance.metadata ELSE @]
    ELSE instance

\* the field merge of Service::update_instance (lines 58-79)
MergeInstance(old_instance, instance, update_tag) ==
    IF update_tag.some /\ ~is_none(update_tag)
    THEN [instance EXCEPT
            !.enabled   = IF ~update_tag.enabled THEN old_instance.enabled ELSE @,
            !.ephemeral = IF ~update_tag.ephemeral THEN old_instance.ephemeral ELSE @,
            !.weight    = IF ~update_tag.weight THEN old_instance.weight ELSE @,
            !.metadata  = IF ~update_tag.metadata THEN old_instance.metadata ELSE @]
    ELSE instance

\* the result type of Service::update_instance for an existing id
UpdateType(update_tag) ==
    IF update_tag.some /\ is_none(update_tag) THEN "UpdateTime" ELSE "UpdateValue"

\* instance_size counted on every call
UpdateSize_every_call(self, present) == self.instance_size + 1

\* instance_size after Service::update_instance (lines 58, 80-83)
UpdateSize(self, present) ==
    IF present THEN self.instance_size ELSE self.instance_size + 1

\* Service::update_instance
update_instance(self, instance, update_tag) ==
    LET key == instance.id
        time_info == get_time_info(instance)
        present == key \in DOMAIN self.instances
        merged == IF present
                  THEN MergeInstance(Stored(self, key), instance, update_tag)
                  ELSE instance
        rtype == IF present THEN UpdateType(update_tag) ELSE "New"
        size == UpdateSize(self, present)
        new_instance == ArcNew(self.heap, merged)
        hp == IF present
              THEN ArcDrop(new_instance.heap, self.instances[key])
              ELSE new_instance.heap
    IN  [self |-> Service(MapInsert(self.instances, key, new_instance.ref),
                          update_timeinfos(self.timeinfos, time_info),
                          size, hp),
         rtype |-> rtype]

\* remove_instance that counts down whether or not the id was there
remove_instance_unchecked(self, instance_id) ==
    IF instance_id \in DOMAIN self.instances
    THEN [self |-> Service(MapRemove(self.instances, instance_id),
                           self.timeinfos,
                           self.instance_size - 1,
                           ArcDrop(self.heap, self.instances[instance_id])),
          rtype |-> "Remove"]
    ELSE [self |-> [self EXCEPT !.instance_size = @ - 1], rtype |-> "None"]

\* Service::remove_instance
remove_instance(self, instance_id) ==
    IF instance_id \in DOMAIN self.instances
    THEN [self |-> Service(MapRemove(self.instances, instance_id),
                           self.timeinfos,
                           self.instance_size - 1,
                           ArcDrop(self.heap, self.instances[instance_id])),
          rtype |-> "Remove"]
    ELSE [self |-> self, rtype |-> "None"]

\* the demotion written through the Arc the map holds
update_instance_healthy_unvaild_in_place(self, instance_id) ==
    IF instance_id \in DOMAIN self.instances
    THEN [self EXCEPT !.heap[self.instances[instance_id]].data.healthy = FALSE]
    ELSE self

\* Service::update_instance_healthy_unvaild
update_instance_healthy_unvaild(self, instance_id) ==
    IF instance_id \in DOMAIN self.instances
    THEN LET old == self.instances[instance_id]
             i == [self.heap[old].data EXCEPT !.healthy = FALSE]
             new_instance == ArcNew(self.heap, i)
         IN  Service(MapInsert(self.instances, instance_id, new_instance.ref),
                     self.timeinfos, self.instance_size,
                     ArcDrop(new_instance.heap, old))
    ELSE self

\* the scan that cuts the list after every record it acts on, demotions
\* included
RECURSIVE Scan_cut_at_visited(_, _, _, _, _)
Scan_cut_at_visited(tis, i, healthy_time, offline_time, acc) ==
    IF i > Len(tis) THEN acc
    ELSE LET item == tis[i] IN
         IF ~item.enable
         THEN Scan_cut_at_visited(tis, i + 1, healthy_time, offline_time, acc)
         ELSE IF item.time <= healthy_time
              THEN IF item.time <= offline_time
                   THEN Scan_cut_at_visited(tis, i + 1, healthy_time, offline_time,
                             [acc EXCEPT
                                !.remove_list = Append(@, item.instance_id),
                                !.remove_index = i])
                   ELSE Scan_cut_at_visited(tis, i + 1, healthy_time, offline_time,
                             [acc EXCEPT
                                !.update_list = Append(@, item.instance_id),
                                !.remove_index = i])
              ELSE acc

\* the scan with the offline threshold compared strictly
RECURSIVE Scan_strict_offline(_, _, _, _, _)
Scan_strict_offline(tis, i, healthy_time, offline_time, acc) ==
    IF i > Len(tis) THEN acc
    ELSE LET item == tis[i] IN
         IF ~item.enable
         THEN Scan_strict_offline(tis, i + 1, healthy_time, offline_time, acc)
         ELSE IF item.time <= healthy_time
              THEN IF item.time < offline_time
                   THEN Scan_strict_offline(tis, i + 1, healthy_time, offline_time,
                             [acc EXCEPT
                                !.remove_list = Append(@, item.instance_id),
                                !.remove_index = i])
                   ELSE Scan_strict_offline(tis, i + 1, healthy_time, offline_time,
                             [acc EXCEPT
                                !.update_list = Append(@, item.instance_id)])
              ELSE acc

\* the scan loop of Service::time_check (lines 106-126), from record i on
RECURSIVE Scan(_, _, _, _, _)
Scan(tis, i, healthy_time, offline_time, acc) ==
    IF i > Len(tis) THEN acc
    ELSE LET item == tis[i] IN
         IF ~item.enable
         THEN Scan(tis, i + 1, healthy_time, offline_time, acc)
         ELSE IF item.time <= healthy_time
              THEN IF item.time <= offline_time
                   THEN Scan(tis, i + 1, healthy_time, offline_time,
                             [acc EXCEPT
                                !.remove_list = Append(@, item.instance_id),
                                !.remove_index = i])
                   ELSE Scan(tis, i + 1, healthy_time, offline_time,
                             [acc EXCEPT
                                !.update_list = Append(@, item.instance_id)])
              ELSE acc

\* split_off that drops the record at position at as well
split_off_one_more(tis, at) == SubSeq(tis, at + 2, Len(tis))

\* split_off that keeps the record before position at as well
split_off_inclusive(tis, at) ==
    SubSeq(tis, IF at = 0 THEN 1 ELSE at, Len(tis))

\* LinkedList::split_off(at): the records from position at (0-based) on
split_off(tis, at) == SubSeq(tis, at + 1, Len(tis))

\* the removal loop that stops after the first id
RemoveAll_first_only(self, list) ==
    IF list = <<>> THEN self ELSE remove_instance(self, Head(list)).self

\* for item in &remove_list { self.remove_instance(&item); }
RECURSIVE RemoveAll(_, _)
RemoveAll(self, list) ==
    IF list = <<>> THEN self
    ELSE RemoveAll(remove_instance(self, Head(list)).self, Tail(list))

\* for item in &update_list { self.update_instance_healthy_unvaild(&item); }
RECURSIVE DemoteAll(_, _)
DemoteAll(self, list) ==
    IF list = <<>> THEN self
    ELSE DemoteAll(update_instance_healthy_unvaild(self, Head(list)), Tail(list))

\* time_check without its assertion
TimeCheckAssert_absent(healthy_time, offline_time) == TRUE

\* assert!(healthy_time>=offline_time)
TimeCheckAssert(healthy_time, offline_time) == healthy_time >= offline_time

\* Service::time_check; panicked is the failed assert!
time_check(self, healthy_time, offline_time) ==
    IF ~TimeCheckAssert(healthy_time, offline_time)
    THEN [self |-> self, panicked |-> TRUE,
          remove_list |-> <<>>, update_list |-> <<>>]
    ELSE LET s == Scan(self.timeinfos, 1, healthy_time, offline_time,
                       [remove_list |-> <<>>, update_list |-> <<>>,
                        remove_index |-> 0])
             cut == [self EXCEPT
                       !.timeinfos = split_off(self.timeinfos, s.remove_index)]
         IN  [self |-> DemoteAll(RemoveAll(cut, s.remove_list), s.update_list),
              panicked |-> FALSE,
              remove_list |-> s.remove_list, update_list |-> s.update_list]

\* Service::get_instance: the Arc the id is mapped to, if any
get_instance(self, instance_key) ==
    IF instance_key \in DOMAIN self.instances
    THEN {self.instances[instance_key]}
    ELSE {}

\* the filter without the test of enabled
get_all_instances_any(self, only_healthy) ==
    {self.instances[k] : k \in
        {x \in DOMAIN self.instances :
            Stored(self, x).healthy \/ ~only_healthy}}

\* Service::get_all_instances: the Arcs that pass the filter
get_all_instances(self, only_healthy) ==
    {self.instances[k] : k \in
        {x \in DOMAIN self.instances :
            Stored(self, x).enabled
                /\ (Stored(self, x).healthy \/ ~only_healthy)}}

----------------------------------------------------------------------------
(* Cache codec: src/raft/cache/model.rs *)

\* Byte strings are sequences of byte values. The bytes used:
\*   34 '"'   44 ','   58 ':'   97 'a'   98 'b'   123 '{'   125 '}'
\*   255 (a byte no UTF-8 text contains)

Ok(v) == [ok |-> TRUE, value |-> v]
Err(e) == [ok |-> FALSE, value |-> e]

\* enum CacheType
CacheTypes == {"String", "Map", "UserSession", "ApiTokenSession"}

\* CacheType::get_type_data
get_type_data(cache_type) ==
    CASE cache_type = "String" -> 1
      [] cache_type = "Map" -> 2
      [] cache_type = "UserSession" -> 3
      [] cache_type = "ApiTokenSession" -> 4

\* CacheType::from_data
from_data(v) ==
    CASE v = 1 -> Ok("String")
      [] v = 2 -> Ok("Map")
      [] v = 3 -> Ok("UserSession")
      [] v = 4 -> Ok("ApiTokenSession")
      [] OTHER -> Err("unknown type")

\* `as u8` on a u32: the low eight bits
AsU8(n) == n % 256

\* String::from_utf8 on the bytes used here: a byte below 128 is a character
from_utf8(data) ==
    IF \A i \in DOMAIN data : data[i] < 128 THEN Ok(data) ELSE Err("utf8")

\* a JSON string that starts with the quote at position i: the position of
\* its closing quote, 0 if there is none (no escapes among the bytes used)
StringEnd(data, i) ==
    IF \E j \in (i + 1) .. Len(data) : data[j] = 34
    THEN CHOOSE j \in (i + 1) .. Len(data) :
            data[j] = 34 /\ \A k \in (i + 1) .. (j - 1) : data[k] # 34
    ELSE 0

\* the members of a JSON object of strings from position i on, added to acc
RECURSIVE ParseMembers(_, _, _)
ParseMembers(data, i, acc) ==
    IF i > Len(data) \/ data[i] # 34 THEN Err("json")
    ELSE LET ke == StringEnd(data, i) IN
         IF ke = 0 \/ ke + 2 > Len(data) \/ data[ke + 1] # 58 \/ data[ke + 2] # 34
         THEN Err("json")
         ELSE LET ve == StringEnd(data, ke + 2)
                  key == SubSeq(data, i + 1, ke - 1)
                  val == SubSeq(data, ke + 3, ve - 1)
              IN  IF ve = 0 \/ ve + 1 > Len(data)
                        \/ ~from_utf8(key).ok \/ ~from_utf8(val).ok
                  THEN Err("json")
                  ELSE LET m == [k \in DOMAIN acc \cup {key} |->
                                    IF k = key THEN val ELSE acc[k]]
                       IN  IF data[ve + 1] = 125
                           THEN IF ve + 1 = Len(data) THEN Ok(m) ELSE Err("json")
                           ELSE IF data[ve + 1] = 44
                                THEN ParseMembers(data, ve + 2, m)
                                ELSE Err("json")

\* serde_json::from_slice::<HashMap<String, String>>
json_to_map(data) ==
    IF Len(data) < 2 \/ data[1] # 123 THEN Err("json")
    ELSE IF data[2] = 125
         THEN IF Len(data) = 2 THEN Ok(<<>>) ELSE Err("json")
         ELSE ParseMembers(data, 2, <<>>)

\* serde_json::from_slice of a session object (UserSession, TokenSession):
\* an object that has the username
json_to_session(data) ==
    LET m == json_to_map(data) IN
        IF m.ok /\ <<97>> \in DOMAIN m.value THEN m ELSE Err("json")

\* enum CacheValue
CacheValue(cache_type, v) == [cache_type |-> cache_type, v |-> v]

\* CacheValue::from_bytes
from_bytes(data, cache_type) ==
    LET r == CASE cache_type = "String" -> from_utf8(data)
               [] cache_type = "Map" -> json_to_map(data)
               [] cache_type = "UserSession" -> json_to_session(data)
               [] cache_type = "ApiTokenSession" -> json_to_session(data)
    IN  IF r.ok THEN Ok(CacheValue(cache_type, r.value)) ELSE r

\* struct CacheItemDo
CacheItemDo(cache_type, data, timeout) ==
    [cache_type |-> cache_type, data |-> data, timeout |-> timeout]

\* impl TryFrom<CacheItemDo> for CacheValue
try_from(value) ==
    LET cache_type == from_data(AsU8(value.cache_type)) IN
        IF cache_type.ok THEN from_bytes(value.data, cache_type.value)
        ELSE cache_type

\* CacheValue::get_cache_type
get_cache_type(value) == value.cache_type

\* the orders in which a HashMap with these keys can be iterated
KeyOrders(keys) ==
    {q \in [1 .. Cardinality(keys) -> keys] :
        \A i, j \in DOMAIN q : q[i] = q[j] => i = j}

\* the fields of a session object in the order of their declaration
RECURSIVE FieldOrder(_)
FieldOrder(keys) ==
    IF keys = {} THEN <<>>
    ELSE LET k == CHOOSE x \in keys :
                    \A y \in keys : Len(x) < Len(y) \/
                        (Len(x) = Len(y) /\ (x = <<>> \/ y = <<>> \/ x[1] <= y[1]))
         IN  <<k>> \o FieldOrder(keys \ {k})

\* serde_json: the members "k":"v" of m in the given order, separated by commas
RECURSIVE Members(_, _)
Members(m, order) ==
    IF order = <<>> THEN <<>>
    ELSE <<34>> \o Head(order) \o <<34, 58, 34>> \o m[Head(order)] \o <<34>>
            \o (IF Len(order) > 1 THEN <<44>> ELSE <<>>)
            \o Members(m, Tail(order))

\* serde_json::to_vec of a string map or of a session object
to_vec(m, order) == <<123>> \o Members(m, order) \o <<125>>

\* to_bytes whose serializer fails on every structured value, so that
\* unwrap_or_default yields no bytes
to_bytes_default(value, order) ==
    IF value.cache_type = "String" THEN value.v ELSE <<>>

\* CacheValue::to_bytes; order is the order in which the HashMap of a Map is
\* iterated
to_bytes(value, order) ==
    CASE value.cache_type = "String" -> value.v
      [] value.cache_type = "Map" -> to_vec(value.v, order)
      [] value.cache_type = "UserSession" ->
            to_vec(value.v, FieldOrder(DOMAIN value.v))
      [] value.cache_type = "ApiTokenSession" ->
            to_vec(value.v, FieldOrder(DOMAIN value.v))

\* the envelope with the tag of the default CacheType whatever the variant
from_default_tag(value, order) ==
    CacheItemDo(get_type_data("String"), to_bytes(value, order), 0)

\* impl From<CacheValue> for CacheItemDo
from(value, order) ==
    CacheItemDo(get_type_data(get_cache_type(value)), to_bytes(value, order), 0)

\* struct CacheKey
CacheKey(cache_type, key) == [cache_type |-> cache_type, key |-> key]

\* the decimal digits of a byte value
Decimal(n) ==
    IF n < 10 THEN <<48 + n>>
    ELSE IF n < 100 THEN <<48 + (n \div 10), 48 + (n % 10)>>
    ELSE <<48 + (n \div 100), 48 + ((n \div 10) % 10), 48 + (n % 10)>>

\* to_key_string that leaves the separator out
to_key_string_unseparated(k) == Decimal(get_type_data(k.cache_type)) \o k.key

\* CacheKey::to_key_string
to_key_string(k) == Decimal(get_type_data(k.cache_type)) \o <<0>> \o k.key

\* the value of a string of decimal digits
RECURSIVE DigitsValue(_)
DigitsValue(digits) ==
    IF digits = <<>> THEN 0
    ELSE 10 * DigitsValue(SubSeq(digits, 1, Len(digits) - 1))
            + (digits[Len(digits)] - 48)

\* str::parse::<u8>: an optional '+', then one digit or more, at most 255
parse_u8(s) ==
    LET digits == IF s # <<>> /\ s[1] = 43 THEN Tail(s) ELSE s IN
        IF digits = <<>> \/ \E i \in DOMAIN digits : digits[i] \notin 48 .. 57
        THEN Err("parse")
        ELSE IF DigitsValue(digits) > 255 THEN Err("parse")
             ELSE Ok(DigitsValue(digits))

\* slice::split(|v| *v == 0): the pieces of db_key between its NUL bytes
RECURSIVE Split(_)
Split(db_key) ==
    IF \E i \in DOMAIN db_key : db_key[i] = 0
    THEN LET i == CHOOSE x \in DOMAIN db_key :
                    db_key[x] = 0 /\ \A y \in 1 .. (x - 1) : db_key[y] # 0
         IN  <<SubSeq(db_key, 1, i - 1)>>
                \o Split(SubSeq(db_key, i + 1, Len(db_key)))
    ELSE <<db_key>>

\* CacheKey::from_string
from_string(key, t) ==
    LET cache_type == from_data(t) IN
        IF cache_type.ok THEN Ok(CacheKey(cache_type.value, key)) ELSE cache_type

\* CacheKey::from_bytes
key_from_bytes(key, t) ==
    LET s == from_utf8(key) IN
        IF s.ok THEN from_string(s.value, t) ELSE s

\* CacheKey::from_db_key
from_db_key(db_key) ==
    LET iter == Split(db_key)
        text == from_utf8(iter[1])
        t == IF text.ok THEN parse_u8(text.value) ELSE text
    IN  IF ~t.ok THEN t
        ELSE IF Len(iter) >= 2 THEN key_from_bytes(iter[2], t.value)
             ELSE Err("db_key split key is error!")

----------------------------------------------------------------------------
(* Console login: src/console/login_api.rs *)

\* what a collaborator answers to a request: kind is MailboxError when the
\* send failed or timed out, Err when the collaborator returned an error,
\* else the variant of the result, with its content
Reply(kind, value) == [kind |-> kind, value |-> value]

\* no answer yet
Pending == Reply("Pending", <<>>)

\* the login form and the cookie of the request; captcha_token is "none"
\* without the cookie, "short" with one of less than 32 bytes, else "full"
LoginParam(captcha_token, captcha, password) ==
    [captcha_token |-> captcha_token, captcha |-> captcha, password |-> password]

NoRequest == LoginParam("none", <<>>, "")

\* HttpResponse: the ApiResult and the cookies it sets
HttpResponse(kind, code, cookies) ==
    [kind |-> kind, code |-> code, cookies |-> cookies]

NoResponse == HttpResponse("none", "", {})

\* str::to_uppercase on ASCII text
to_uppercase(text) ==
    [i \in DOMAIN text |->
        IF text[i] \in 97 .. 122 THEN text[i] - 32 ELSE text[i]]

\* the captcha check that lets the login through when the cache gives no
\* answer
captcha_check_result_unless_known(reply, captcha_code) ==
    IF reply.kind = "Value" /\ reply.value.cache_type = "String"
    THEN captcha_code = reply.value.v
    ELSE reply.kind \in {"MailboxError", "Err"}

\* captcha_check_result (lines 45-51)
captcha_check_result(reply, captcha_code) ==
    IF reply.kind = "Value" /\ reply.value.cache_type = "String"
    THEN captcha_code = reply.value.v
    ELSE FALSE

\* decode_password (lines 144-152): the password is not base64, the token
\* is too short to be sliced into key and iv, or the decryption fails
decode_password(password, captcha_token) ==
    IF password = "bad_base64" THEN "Err"
    ELSE IF captcha_token = "short" THEN "Panic"
    ELSE IF password = "bad_cipher" THEN "Err"
    ELSE "Ok"

\* an error response (ApiResult::error)
ErrorResponse(code, cookies) == HttpResponse("error", code, cookies)

\* login up to its first await (lines 32-46)
login_begin(l, param) ==
    IF param.captcha_token = "none"
    THEN [l EXCEPT !.pc = "done", !.request = param,
                   !.response = ErrorResponse("CAPTCHA_CHECK_ERROR", {})]
    ELSE [l EXCEPT !.pc = "captcha", !.request = param,
                   !.sent = Append(@, "Get")]

\* login from the answer of the cache to its second await (lines 45-72)
login_after_captcha(l, reply) ==
    IF ~captcha_check_result(reply, to_uppercase(l.request.captcha))
    THEN [l EXCEPT !.pc = "done", !.captcha_reply = reply,
                   !.response = ErrorResponse("CAPTCHA_CHECK_ERROR",
                                              {"captcha_token"})]
    ELSE [l EXCEPT !.pc = "limiter", !.captcha_reply = reply,
                   !.sent = Append(@, "Limiter")]

\* login from the answer of the limiter to its third await (lines 71-98)
login_after_limiter(l, reply) ==
    LET m == [l EXCEPT !.limiter_reply = reply] IN
    IF reply.kind = "Limiter"
    THEN IF ~reply.value
         THEN [m EXCEPT !.pc = "done",
                        !.response = ErrorResponse("LOGIN_LIMITE_ERROR", {})]
         ELSE LET password == decode_password(l.request.password,
                                              l.request.captcha_token)
              IN  CASE password = "Ok" ->
                         [m EXCEPT !.pc = "check_user",
                                   !.sent = Append(@, "CheckUser")]
                    [] password = "Err" ->
                         [m EXCEPT !.pc = "done",
                                   !.response = ErrorResponse("SYSTEM_ERROR", {})]
                    [] password = "Panic" ->
                         [m EXCEPT !.pc = "done",
                                   !.response = HttpResponse("panic", "", {})]
    ELSE [m EXCEPT !.pc = "done",
                   !.response = ErrorResponse("SYSTEM_ERROR", {})]

\* login from the answer of the user manager to its end (lines 97-141)
login_after_check_user(l, reply) ==
    LET m == [l EXCEPT !.pc = "done", !.user_reply = reply] IN
    IF reply.kind = "CheckUserResult"
    THEN IF reply.value
         THEN [m EXCEPT !.sent = @ \o <<"Set", "Remove">>,
                        !.response = HttpResponse("success", "",
                                                  {"token", "captcha_token"})]
         ELSE [m EXCEPT !.response = ErrorResponse("USER_CHECK_ERROR", {})]
    ELSE [m EXCEPT !.response = ErrorResponse("SYSTEM_ERROR", {})]

----------------------------------------------------------------------------
(* Inputs of the calls *)

\* the captcha codes: typed in either case, and stored upper-cased or not
Codes == {<<97, 98>>, <<65, 98>>, <<65, 66>>, <<67, 68>>}

\* the login requests
LoginParams ==
    {LoginParam(t, c, p) : t \in {"none", "short", "full"}, c \in Codes,
                           p \in {"bad_base64", "bad_cipher", "good"}}

\* the answers to the cache Get: the send fails or times out, the cache
\* returns an error, nothing, a string or a value of another type
CaptchaReplies ==
    {Reply(k, CacheValue("String", <<>>)) : k \in {"MailboxError", "Err", "None"}}
    \cup {Reply("Value", CacheValue("String", c)) : c \in Codes}
    \cup {Reply("Value", CacheValue("Map", <<>>))}

\* the answers to the limiter request: an error, an admission result or
\* another result
LimiterReplies ==
    {Reply(k, b) : k \in {"Err", "Limiter", "None"}, b \in BOOLEAN}

\* the answers to the user check
CheckUserReplies ==
    {Reply(k, b) : k \in {"MailboxError", "Err", "CheckUserResult", "None"},
                   b \in BOOLEAN}


\* the registry specification: every combination of id, flags and time
RegInstances ==
    {Instance(id, e, h, TRUE, 1, "m1", t) :
        id \in Ids, e \in BOOLEAN, h \in BOOLEAN, t \in Times}

\* its update tags: none, a pure heartbeat, one that flags enabled and one
\* that flags another field
RegTags ==
    {NoneTag,
     InstanceUpdateTag(TRUE, FALSE, FALSE, FALSE, FALSE),
     InstanceUpdateTag(TRUE, TRUE, FALSE, FALSE, FALSE),
     InstanceUpdateTag(TRUE, FALSE, FALSE, TRUE, FALSE)}

\* the merge specification: one id, every combination of the merged fields
MergeInstances ==
    {Instance("A", e, h, p, w, m, 1) :
        e \in BOOLEAN, h \in BOOLEAN, p \in BOOLEAN,
        w \in {1, 2}, m \in {"m1", "m2"}}

\* the decay specification: healthy instances that report with the time of
\* a clock that never goes back, so that the record times do not decrease
\* along timeinfos
DecayInstances ==
    {Instance(id, TRUE, TRUE, TRUE, 1, "m1", t) :
        id \in Ids,
        t \in {x \in Times :
                 timeinfos = <<>> \/ x >= timeinfos[Len(timeinfos)].time}}

\* the monotone specification: every combination of flags, with times that
\* do not decrease along timeinfos
MonotoneInstances ==
    {i \in RegInstances :
        timeinfos = <<>>
            \/ i.last_modified_millis >= timeinfos[Len(timeinfos)].time}

\* the reader specification: both ids, healthy or not
SnapInstances ==
    {Instance(id, TRUE, h, TRUE, 1, "m1", 1) : id \in Ids, h \in BOOLEAN}

\* the cache codec specification: the wire tags, among them tags that do
\* not fit a byte, and the payloads
WireTags == (0 .. 5) \cup {255, 256, 257, 258, 260, 261, 65538}

Payloads ==
    {<<>>,
     <<97>>,                                               \* a
     <<255>>,
     <<34, 97, 34>>,                                       \* "a"
     <<123>>,                                              \* {
     <<123, 125>>,                                         \* {}
     <<123, 34, 97, 34, 58, 34, 98, 34, 125>>,             \* {"a":"b"}
     <<123, 34, 98, 34, 58, 34, 97, 34, 125>>,             \* {"b":"a"}
     <<123, 34, 97, 34, 58, 34, 255, 34, 125>>,
     <<123, 34, 97, 34, 58, 34, 98, 34, 44,
       34, 98, 34, 58, 34, 97, 34, 125>>}                  \* {"a":"b","b":"a"}

CacheItemDos ==
    {CacheItemDo(t, d, 0) : t \in WireTags, d \in Payloads}

\* the strings a cache value is made of: the empty one, letters, and
\* strings that read as JSON
Texts ==
    {<<>>, <<97>>, <<98>>, <<97, 98>>, <<123>>, <<123, 125>>, <<58, 44>>,
     <<123, 34, 97, 34, 58, 34, 98, 34, 125>>}

\* the keys and values of maps: texts without a quote (the escapes of JSON
\* are not modelled)
MapTexts == {s \in Texts : \A i \in DOMAIN s : s[i] # 34}

\* maps of at most two entries
StringMaps ==
    {<<>>} \cup
    {[k \in {k1} |-> v1] : k1 \in {<<97>>, <<98>>, <<>>}, v1 \in MapTexts}
    \cup {[k \in {<<97>>, <<98>>} |-> IF k = <<97>> THEN v1 ELSE v2] :
            v1 \in {<<>>, <<98>>}, v2 \in {<<97>>, <<123, 125>>}}

\* session objects: the username and one more field, or the username alone
Sessions == {m \in StringMaps : <<97>> \in DOMAIN m}

\* the values of one variant
CacheValues(cache_type) ==
    CASE cache_type = "String" -> {CacheValue(cache_type, s) : s \in Texts}
      [] cache_type = "Map" -> {CacheValue(cache_type, m) : m \in StringMaps}
      [] OTHER -> {CacheValue(cache_type, m) : m \in Sessions}

\* the bytes of a stored key: NUL, '+', '0', '1', '5', 'a' and a byte no
\* UTF-8 text contains
KeyBytes == {0, 43, 48, 49, 53, 97, 255}

\* the byte strings of at most n bytes
BytesUpTo(n) == UNION {[1 .. l -> KeyBytes] : l \in 0 .. n}

\* the stored keys handed to from_db_key
DbKeys == BytesUpTo(MaxKeyLen)

\* the cache keys: every type, raw keys with and without a NUL byte
CacheKeys ==
    {CacheKey(t, k) : t \in CacheTypes,
                      k \in {s \in BytesUpTo(2) : \A i \in DOMAIN s : s[i] < 128}}

----------------------------------------------------------------------------
(* State machine *)

\* Addresses are opaque: a state stands for every state that differs from it
\* by a renaming of the addresses. Canon picks the representative in which
\* the map entries occupy the first addresses in the order of their ids and
\* the allocations only readers hold follow in the order of held.
IdIndex(id) == CHOOSE i \in DOMAIN IdSeq : IdSeq[i] = id

MapRank(ins, id) ==
    Cardinality({x \in DOMAIN ins : IdIndex(x) <= IdIndex(id)})

HeldOnly(ins, hd) ==
    {hd[i].ref : i \in DOMAIN hd} \ {ins[x] : x \in DOMAIN ins}

FirstHeld(hd, a) ==
    CHOOSE i \in DOMAIN hd :
        hd[i].ref = a /\ \A j \in DOMAIN hd : hd[j].ref = a => i <= j

Rename(ins, hd, a) ==
    IF \E x \in DOMAIN ins : ins[x] = a
    THEN MapRank(ins, CHOOSE x \in DOMAIN ins : ins[x] = a)
    ELSE Cardinality(DOMAIN ins)
            + Cardinality({b \in HeldOnly(ins, hd) :
                              FirstHeld(hd, b) <= FirstHeld(hd, a)})

Live(ins, hd) ==
    {ins[x] : x \in DOMAIN ins} \cup {hd[i].ref : i \in DOMAIN hd}

\* the state after a call: the Service it left and the snapshots held
Install(self, hd) ==
    LET ins == self.instances
        live == Live(ins, hd)
    IN  /\ instances' = [x \in DOMAIN ins |-> Rename(ins, hd, ins[x])]
        /\ heap' = [n \in Addr |->
                      IF \E a \in live : Rename(ins, hd, a) = n
                      THEN self.heap[CHOOSE a \in live : Rename(ins, hd, a) = n]
                      ELSE FreeCell]
        /\ held' = [i \in DOMAIN hd |->
                      [hd[i] EXCEPT !.ref = Rename(ins, hd, hd[i].ref)]]
        /\ timeinfos' = self.timeinfos
        /\ instance_size' = self.instance_size
        /\ UNCHANGED <<codec, console>>

\* Service::default()
NewService ==
    /\ instances = <<>>
    /\ timeinfos = <<>>
    /\ instance_size = 0
    /\ heap = [a \in Addr |-> FreeCell]
    /\ held = <<>>
    /\ ret = [op |-> "default"]

\* CacheItemDo::default(), no codec call made
CodecIdle ==
    /\ wire = CacheItemDo(0, <<>>, 0)
    /\ out = [op |-> "none"]

\* no login request received
LoginIdle ==
    login = [pc |-> "idle", request |-> NoRequest, sent |-> <<>>,
             captcha_reply |-> Pending, limiter_reply |-> Pending,
             user_reply |-> Pending, response |-> NoResponse]

Init == NewService /\ CodecIdle /\ LoginIdle

\* a call of update_instance with an instance and a tag of the given sets
UpdateInstanceOf(Inputs, Tags) ==
    \E instance \in Inputs, update_tag \in Tags :
        /\ Len(timeinfos) < MaxTimeinfos
        /\ LET r == update_instance(Self, instance, update_tag) IN
            /\ Install(r.self, held)
            /\ ret' = [op |-> "update_instance", instance |-> instance,
                       update_tag |-> update_tag, rtype |-> r.rtype]

\* a caller registers an instance, updates it or sends its heartbeat
UpdateInstance == UpdateInstanceOf(RegInstances, RegTags)

MergeUpdateInstance == UpdateInstanceOf(MergeInstances, AllTags)

SnapUpdateInstance == UpdateInstanceOf(SnapInstances, {NoneTag})

\* a caller deregisters an instance
RemoveInstance ==
    \E instance_id \in Ids :
        LET r == remove_instance(Self, instance_id) IN
            /\ Install(r.self, held)
            /\ ret' = [op |-> "remove_instance", instance_id |-> instance_id,
                       rtype |-> r.rtype]

\* a tick with the given thresholds
TimeCheckAt(healthy_time, offline_time) ==
    LET r == time_check(Self, healthy_time, offline_time) IN
        /\ Install(r.self, held)
        /\ ret' = [op |-> "time_check", panicked |-> r.panicked,
                   remove_list |-> r.remove_list,
                   update_list |-> r.update_list]

\* the periodic tick
TimeCheck ==
    \E healthy_time \in Thresholds, offline_time \in Thresholds :
        TimeCheckAt(healthy_time, offline_time)

\* a query: the caller looks at the list and lets it go
GetAllInstances ==
    \E only_healthy \in BOOLEAN :
        /\ ret' = [op |-> "get_all_instances", only_healthy |-> only_healthy,
                   list |-> get_all_instances(Self, only_healthy)]
        /\ UNCHANGED <<instances, timeinfos, instance_size, heap, held,
                       codec, console>>

\* a reader keeps the snapshot a query returned to it
Hold(a) ==
    /\ Len(held) < MaxHeld
    /\ Install([Self EXCEPT !.heap = ArcClone(heap, a)],
               Append(held, [ref |-> a, seen |-> heap[a].data]))
    /\ UNCHANGED ret

HoldInstance ==
    \E instance_key \in Ids : \E a \in get_instance(Self, instance_key) : Hold(a)

HoldAllInstances ==
    \E only_healthy \in BOOLEAN :
        \E a \in get_all_instances(Self, only_healthy) : Hold(a)

\* a reader lets go of a snapshot
DropSnapshot ==
    \E i \in 1 .. Len(held) :
        /\ Install([Self EXCEPT !.heap = ArcDrop(heap, held[i].ref)],
                   SubSeq(held, 1, i - 1) \o SubSeq(held, i + 1, Len(held)))
        /\ UNCHANGED ret

\* the registry: registrations, deregistrations, ticks and queries
Next ==
    \/ UpdateInstance
    \/ RemoveInstance
    \/ TimeCheck
    \/ GetAllInstances

Spec == Init /\ [][Next]_vars

\* one instance, updated with every tag
MergeNext ==
    \/ MergeUpdateInstance
    \/ RemoveInstance
    \/ TimeCheck

MergeSpec == Init /\ [][MergeNext]_vars

\* the registry with readers that keep what they were given
ReaderNext ==
    \/ SnapUpdateInstance
    \/ RemoveInstance
    \/ TimeCheck
    \/ HoldInstance
    \/ HoldAllInstances
    \/ DropSnapshot

ReaderSpec == Init /\ [][ReaderNext]_vars

\* registrations and heartbeats in the order of their times
DecayUpdateInstance ==
    UpdateInstanceOf(DecayInstances,
                     {InstanceUpdateTag(TRUE, FALSE, FALSE, FALSE, FALSE)})

\* the tick whose thresholds have reached every time
LateTick == TimeCheckAt(MaxTime, MaxTime)

\* the registry under a clock that never goes back
DecayNext ==
    \/ DecayUpdateInstance
    \/ RemoveInstance
    \/ TimeCheck

\* the external tick keeps coming, and its thresholds reach every time
DecaySpec == Init /\ [][DecayNext]_vars /\ WF_vars(LateTick)

\* a login request arrives
Login ==
    /\ login.pc = "idle"
    /\ \E param \in LoginParams : login' = login_begin(login, param)
    /\ UNCHANGED <<registry, codec>>

\* the cache manager answers the Get of the captcha code
LoginCaptchaReply ==
    /\ login.pc = "captcha"
    /\ \E reply \in CaptchaReplies : login' = login_after_captcha(login, reply)
    /\ UNCHANGED <<registry, codec>>

\* the cache route answers the limiter request
LoginLimiterReply ==
    /\ login.pc = "limiter"
    /\ \E reply \in LimiterReplies : login' = login_after_limiter(login, reply)
    /\ UNCHANGED <<registry, codec>>

\* the user manager answers the check of the user
LoginCheckUserReply ==
    /\ login.pc = "check_user"
    /\ \E reply \in CheckUserReplies :
          login' = login_after_check_user(login, reply)
    /\ UNCHANGED <<registry, codec>>

\* one login, whose requests may fail, time out or never be answered
LoginNext ==
    \/ Login
    \/ LoginCaptchaReply
    \/ LoginLimiterReply
    \/ LoginCheckUserReply

LoginSpec == Init /\ [][LoginNext]_vars

\* registrations, updates and heartbeats in the order of their times
MonotoneUpdateInstance == UpdateInstanceOf(MonotoneInstances, RegTags)

\* updates in the order of their times and ticks, nothing else
MonotoneNext ==
    \/ MonotoneUpdateInstance
    \/ TimeCheck

MonotoneSpec == Init /\ [][MonotoneNext]_vars

\* the cache codec applied to an envelope read from the store
CodecInit ==
    /\ NewService
    /\ wire \in CacheItemDos
    /\ out = [op |-> "none"]
    /\ LoginIdle

\* CacheValue::try_from(wire)
TryFrom ==
    /\ out' = [op |-> "try_from", result |-> try_from(wire)]
    /\ UNCHANGED <<wire, registry, console>>

\* CacheType::from_data(v) for a byte v
FromData ==
    \E v \in 0 .. 255 :
        /\ out' = [op |-> "from_data", v |-> v, result |-> from_data(v)]
        /\ UNCHANGED <<wire, registry, console>>

CodecNext ==
    \/ TryFrom
    \/ FromData

CodecSpec == CodecInit /\ [][CodecNext]_vars

\* the orders in which to_bytes can meet the entries of a value
Orders(value) ==
    IF value.cache_type = "Map" THEN KeyOrders(DOMAIN value.v) ELSE {<<>>}

\* value.to_bytes()
ToBytes ==
    \E cache_type \in CacheTypes : \E value \in CacheValues(cache_type) :
      \E order \in Orders(value) :
        /\ out' = [op |-> "to_bytes", value |-> value,
                   result |-> to_bytes(value, order)]
        /\ UNCHANGED <<wire, registry, console>>

\* CacheValue::from_bytes on the bytes to_bytes returned, with any type
FromBytes ==
    /\ out.op = "to_bytes"
    /\ \E cache_type \in CacheTypes :
          out' = [op |-> "from_bytes", value |-> out.value, data |-> out.result,
                  cache_type |-> cache_type,
                  result |-> from_bytes(out.result, cache_type)]
    /\ UNCHANGED <<wire, registry, console>>

\* CacheItemDo::from(value)
From ==
    \E cache_type \in CacheTypes : \E value \in CacheValues(cache_type) :
      \E order \in Orders(value) :
        /\ wire' = from(value, order)
        /\ out' = [op |-> "from", value |-> value]
        /\ UNCHANGED <<registry, console>>

\* values encoded, decoded and put into envelopes
ValueNext ==
    \/ ToBytes
    \/ FromBytes
    \/ From
    \/ TryFrom

ValueSpec == Init /\ [][ValueNext]_vars

\* k.to_key_string()
ToKeyString ==
    \E k \in CacheKeys :
        /\ out' = [op |-> "to_key_string", k |-> k, result |-> to_key_string(k)]
        /\ UNCHANGED <<wire, registry, console>>

\* CacheKey::from_db_key on a stored key, read before any other call or
\* after a key was written
FromDbKey ==
    \E db_key \in DbKeys :
        /\ out.op # "from_db_key"
        /\ out' = [op |-> "from_db_key", db_key |-> db_key,
                   result |-> from_db_key(db_key)]
        /\ UNCHANGED <<wire, registry, console>>

\* CacheKey::from_db_key on the string to_key_string returned
ParseKeyString ==
    /\ out.op = "to_key_string"
    /\ out' = [op |-> "from_db_key", db_key |-> out.result,
               result |-> from_db_key(out.result)]
    /\ UNCHANGED <<wire, registry, console>>

\* keys written and read back
KeyNext ==
    \/ ToKeyString
    \/ FromDbKey
    \/ ParseKeyString

KeySpec == Init /\ [][KeyNext]_vars

----------------------------------------------------------------------------
(* Properties of the registry *)

SeqSet(q) == {q[i] : i \in DOMAIN q}

NoDuplicates(q) == Cardinality(SeqSet(q)) = Len(q)

\* record times are non-decreasing in insertion order
Monotone(tis) ==
    \A i \in DOMAIN tis, j \in DOMAIN tis : i < j => tis[i].time <= tis[j].time

\* the ids whose enabled record has a time in lo+1 .. hi
EnabledIn(tis, lo, hi) ==
    {tis[i].instance_id : i \in
        {j \in DOMAIN tis : tis[j].enable /\ lo < tis[j].time /\ tis[j].time <= hi}}

\* the lists time_check returned name exactly the ids past each threshold
ListsExact(r, healthy_time, offline_time) ==
    /\ NoDuplicates(r.remove_list) /\ NoDuplicates(r.update_list)
    /\ SeqSet(r.remove_list) = EnabledIn(timeinfos, -1, offline_time)
    /\ SeqSet(r.update_list) = EnabledIn(timeinfos, offline_time, healthy_time)

RemovedAbsent(r) ==
    \A id \in SeqSet(r.remove_list) : id \notin DOMAIN r.self.instances

\* an instance whose enabled record is newer than healthy_time is as it was
NewerUntouched(r, healthy_time) ==
    \A id \in DOMAIN instances :
        id \in EnabledIn(timeinfos, healthy_time, MaxTime)
            => /\ id \in DOMAIN r.self.instances
               /\ Stored(r.self, id) = Stored(Self, id)

Demoted(r, id) ==
    /\ id \in DOMAIN r.self.instances
    /\ Stored(r.self, id) = [Stored(Self, id) EXCEPT !.healthy = FALSE]

\* C1 as claimed: with monotone record times and healthy_time >=
\* offline_time, time_check returns exactly the ids whose enabled record is
\* at or before offline_time as removed and those between the thresholds as
\* demoted; every removed id is absent afterwards, every demoted id is
\* present with healthy=false and its other fields unchanged, and the
\* instances with a newer enabled record are unchanged.
C1_TimeCheckContract ==
    \A healthy_time \in Thresholds, offline_time \in Thresholds :
        (healthy_time >= offline_time /\ Monotone(timeinfos)) =>
            LET r == time_check(Self, healthy_time, offline_time) IN
                /\ ~r.panicked
                /\ ListsExact(r, healthy_time, offline_time)
                /\ RemovedAbsent(r)
                /\ \A id \in SeqSet(r.update_list) : Demoted(r, id)
                /\ NewerUntouched(r, healthy_time)

\* C1 as amended: the same, except that a demoted id is present with
\* healthy=false and its other fields unchanged if it was in instances
\* before the call, and stays absent if it was not (remove_instance leaves
\* the enabled record of the id it removes in timeinfos).
C1_TimeCheckContractPresent ==
    \A healthy_time \in Thresholds, offline_time \in Thresholds :
        (healthy_time >= offline_time /\ Monotone(timeinfos)) =>
            LET r == time_check(Self, healthy_time, offline_time) IN
                /\ ~r.panicked
                /\ ListsExact(r, healthy_time, offline_time)
                /\ RemovedAbsent(r)
                /\ \A id \in SeqSet(r.update_list) :
                      IF id \in DOMAIN instances
                      THEN Demoted(r, id)
                      ELSE id \notin DOMAIN r.self.instances
                /\ NewerUntouched(r, healthy_time)

\* a tick has removed A and demoted B
C1_Witness ==
    /\ ret.op = "time_check"
    /\ ret.remove_list = <<"A">>
    /\ ret.update_list = <<"B">>
    /\ DOMAIN instances = {"B"}
    /\ ~Stored(Self, "B").healthy
    /\ Stored(Self, "B").enabled

\* the step is an update_instance call for id, which the map already holds
UpdatesExisting(id) ==
    /\ ret'.op = "update_instance"
    /\ ret'.instance.id = id
    /\ id \in DOMAIN instances

\* C2 as claimed: a pure heartbeat (a tag with all four flags false) for an
\* existing instance leaves enabled, ephemeral, weight and metadata as
\* stored, and returns UpdateTime.
C2_HeartbeatKeepsStoredFields ==
    [][\A id \in Ids :
        (/\ UpdatesExisting(id)
         /\ ret'.update_tag.some
         /\ ~ret'.update_tag.enabled /\ ~ret'.update_tag.ephemeral
         /\ ~ret'.update_tag.weight /\ ~ret'.update_tag.metadata)
        => /\ ret'.rtype = "UpdateTime"
           /\ Stored(Self, id)'.enabled = Stored(Self, id).enabled
           /\ Stored(Self, id)'.ephemeral = Stored(Self, id).ephemeral
           /\ Stored(Self, id)'.weight = Stored(Self, id).weight
           /\ Stored(Self, id)'.metadata = Stored(Self, id).metadata]_vars

\* C3: an update of an existing instance with a tag that flags at least one
\* field stores each flagged field of the supplied instance and each
\* unflagged field of the stored one, and returns UpdateValue.
C3_FlaggedFieldsMerge ==
    [][\A id \in Ids :
        (/\ UpdatesExisting(id)
         /\ ret'.update_tag.some
         /\ \/ ret'.update_tag.enabled \/ ret'.update_tag.ephemeral
            \/ ret'.update_tag.weight \/ ret'.update_tag.metadata)
        => /\ ret'.rtype = "UpdateValue"
           /\ Stored(Self, id)'.enabled =
                 IF ret'.update_tag.enabled THEN ret'.instance.enabled
                 ELSE Stored(Self, id).enabled
           /\ Stored(Self, id)'.ephemeral =
                 IF ret'.update_tag.ephemeral THEN ret'.instance.ephemeral
                 ELSE Stored(Self, id).ephemeral
           /\ Stored(Self, id)'.weight =
                 IF ret'.update_tag.weight THEN ret'.instance.weight
                 ELSE Stored(Self, id).weight
           /\ Stored(Self, id)'.metadata =
                 IF ret'.update_tag.metadata THEN ret'.instance.metadata
                 ELSE Stored(Self, id).metadata]_vars

\* an update that flagged the weight alone: the weight stored is the
\* supplied one, the metadata and enabled stored are not
C3_Witness ==
    /\ ret.op = "update_instance"
    /\ ret.rtype = "UpdateValue"
    /\ ret.update_tag = InstanceUpdateTag(TRUE, FALSE, FALSE, TRUE, FALSE)
    /\ Stored(Self, ret.instance.id).weight = ret.instance.weight
    /\ Stored(Self, ret.instance.id).metadata # ret.instance.metadata
    /\ Stored(Self, ret.instance.id).enabled # ret.instance.enabled

\* C4: update_instance for an id the map does not hold returns New and
\* adds one to instance_size; for an id it holds it returns UpdateValue or
\* UpdateTime and leaves instance_size as it is.
C4_NewOrUpdate ==
    [][ret'.op = "update_instance" =>
        IF ret'.instance.id \notin DOMAIN instances
        THEN /\ ret'.rtype = "New"
             /\ instance_size' = instance_size + 1
        ELSE /\ ret'.rtype \in {"UpdateValue", "UpdateTime"}
             /\ instance_size' = instance_size]_vars

\* an id registered again after it was removed: New, with the record of
\* its earlier registration still in timeinfos
C4_Witness ==
    /\ ret.op = "update_instance"
    /\ ret.rtype = "New"
    /\ instance_size = 1
    /\ \E i \in DOMAIN timeinfos :
          /\ timeinfos[i].instance_id = ret.instance.id
          /\ ~timeinfos[i].enable

\* C5: instance_size is the number of entries of instances.
C5_SizeIsCount == instance_size = Cardinality(DOMAIN instances)

\* a tick has removed one of two registered instances
C5_Witness ==
    /\ ret.op = "time_check"
    /\ Len(ret.remove_list) = 1
    /\ instance_size = 1

\* C6: timeinfos holds at most one enabled record per id, and an enabled
\* record is the last record of its id.
C6_OneEnabledRecord ==
    \A i \in DOMAIN timeinfos, j \in DOMAIN timeinfos :
        (i < j /\ timeinfos[i].instance_id = timeinfos[j].instance_id)
            => ~timeinfos[i].enable

\* an update has superseded the earlier record of its id
C6_Witness ==
    /\ ret.op = "update_instance"
    /\ \E i \in DOMAIN timeinfos, j \in DOMAIN timeinfos :
          /\ i < j
          /\ timeinfos[i].instance_id = timeinfos[j].instance_id
          /\ ~timeinfos[i].enable
          /\ timeinfos[j].enable

\* C7: time_check with healthy_time < offline_time fails on its assertion
\* with instances, instance_size and timeinfos as they were and no lists.
C7_AssertBeforeMutation ==
    \A healthy_time \in Thresholds, offline_time \in Thresholds :
        healthy_time < offline_time =>
            LET r == time_check(Self, healthy_time, offline_time) IN
                /\ r.panicked
                /\ r.self = Self
                /\ r.remove_list = <<>> /\ r.update_list = <<>>

\* a tick has failed on a registry that held a record it would have taken
C7_Witness ==
    /\ ret.op = "time_check"
    /\ ret.panicked
    /\ instance_size > 0
    /\ \E i \in DOMAIN timeinfos : timeinfos[i].enable /\ timeinfos[i].time = 1

\* C8: what a reader holds is what it was given: the allocation is alive
\* and its content is the content seen when the snapshot was taken.
C8_SnapshotsImmutable ==
    \A i \in DOMAIN held :
        /\ heap[held[i].ref].strong >= 1
        /\ heap[held[i].ref].data = held[i].seen

\* a reader holds the healthy snapshot of an instance a tick has demoted
C8_Witness ==
    /\ ret.op = "time_check"
    /\ \E i \in DOMAIN held :
          /\ held[i].seen.healthy
          /\ held[i].seen.id \in SeqSet(ret.update_list)
          /\ held[i].seen.id \in DOMAIN instances
          /\ instances[held[i].seen.id] # held[i].ref
          /\ ~Stored(Self, held[i].seen.id).healthy

\* C9: get_all_instances(true) returns exactly the enabled and healthy
\* instances, get_all_instances(false) exactly the enabled ones.
C9_HealthyFilter ==
    /\ {heap[a].data : a \in get_all_instances(Self, TRUE)} =
          {Stored(Self, id) : id \in
              {x \in DOMAIN instances :
                  Stored(Self, x).enabled /\ Stored(Self, x).healthy}}
    /\ {heap[a].data : a \in get_all_instances(Self, FALSE)} =
          {Stored(Self, id) : id \in
              {x \in DOMAIN instances : Stored(Self, x).enabled}}
    /\ ret.op = "get_all_instances" =>
          \A a \in ret.list :
              heap[a].data.enabled /\ (ret.only_healthy => heap[a].data.healthy)

\* a healthy-only query has returned one instance and left out an
\* unhealthy one
C9_Witness ==
    /\ ret.op = "get_all_instances"
    /\ ret.only_healthy
    /\ Cardinality(ret.list) = 1
    /\ \E id \in DOMAIN instances :
          Stored(Self, id).enabled /\ ~Stored(Self, id).healthy

\* the position of the record the scan of time_check stops at: the first
\* enabled record newer than healthy_time, or the end of the list
StopPoint(tis, healthy_time) ==
    IF \E i \in DOMAIN tis : tis[i].enable /\ tis[i].time > healthy_time
    THEN CHOOSE i \in DOMAIN tis :
            /\ tis[i].enable /\ tis[i].time > healthy_time
            /\ \A j \in 1 .. (i - 1) : ~(tis[j].enable /\ tis[j].time > healthy_time)
    ELSE Len(tis) + 1

\* the position of the last record before the stop point that marks its
\* instance for removal, 0 if there is none
LastRemoval(tis, healthy_time, offline_time) ==
    LET marks == {i \in 1 .. (StopPoint(tis, healthy_time) - 1) :
                    tis[i].enable /\ tis[i].time <= offline_time}
    IN  IF marks = {} THEN 0
        ELSE CHOOSE i \in marks : \A j \in marks : j <= i

\* C15 as claimed: time_check drops every record up to and including the
\* last one its scan visited, whether that record was disabled, marked a
\* removal or marked a demotion; only the records after it remain.
C15_TruncatesVisited ==
    \A healthy_time \in Thresholds, offline_time \in Thresholds :
        healthy_time >= offline_time =>
            time_check(Self, healthy_time, offline_time).self.timeinfos
                = SubSeq(timeinfos, StopPoint(timeinfos, healthy_time),
                         Len(timeinfos))

\* C15 amended: time_check drops every record up to and including the last
\* visited record that marked a removal, and nothing when no record marked
\* one; visited records after it, disabled or demoted, remain.
C15_TruncatesToLastRemoval ==
    \A healthy_time \in Thresholds, offline_time \in Thresholds :
        healthy_time >= offline_time =>
            time_check(Self, healthy_time, offline_time).self.timeinfos
                = SubSeq(timeinfos,
                         LastRemoval(timeinfos, healthy_time, offline_time) + 1,
                         Len(timeinfos))

\* a tick has removed A and demoted B: the record of A is gone, the record
\* of B, visited after it, is still there
C15_Witness ==
    /\ ret.op = "time_check"
    /\ ret.remove_list = <<"A">>
    /\ ret.update_list = <<"B">>
    /\ Len(timeinfos) = 1
    /\ timeinfos[1].instance_id = "B"

\* C16 as claimed: time_check deletes every id it returns as removed,
\* instance_size goes down by the number of ids returned as removed, and
\* every id returned as removed or demoted was in instances before the call.
C16_RemovedWerePresent ==
    \A healthy_time \in Thresholds, offline_time \in Thresholds :
        healthy_time >= offline_time =>
            LET r == time_check(Self, healthy_time, offline_time) IN
                /\ \A id \in SeqSet(r.remove_list) :
                      id \notin DOMAIN r.self.instances
                /\ r.self.instance_size = instance_size - Len(r.remove_list)
                /\ SeqSet(r.remove_list) \cup SeqSet(r.update_list)
                      \subseteq DOMAIN instances

\* C16 amended: after time_check no id it returns as removed is in
\* instances, no other id has left instances, and instance_size has gone
\* down by the number of returned ids that were in instances before the call.
C16_RemovedAreAbsent ==
    \A healthy_time \in Thresholds, offline_time \in Thresholds :
        healthy_time >= offline_time =>
            LET r == time_check(Self, healthy_time, offline_time) IN
                /\ DOMAIN r.self.instances
                      = DOMAIN instances \ SeqSet(r.remove_list)
                /\ r.self.instance_size
                      = instance_size
                          - Cardinality(SeqSet(r.remove_list) \cap DOMAIN instances)

\* a tick has removed both instances
C16_Witness ==
    /\ ret.op = "time_check"
    /\ Len(ret.remove_list) = 2
    /\ DOMAIN instances = {}
    /\ instance_size = 0

\* C17: every update_instance call appends one record, enabled, with the
\* id and the time of the instance; it disables the earlier records of that
\* id and leaves every other record and the map entries of the other ids
\* as they were.
C17_AppendsOneRecord ==
    [][ret'.op = "update_instance" =>
        LET id == ret'.instance.id
            n == Len(timeinfos)
        IN  /\ Len(timeinfos') = n + 1
            /\ timeinfos'[n + 1]
                  = [instance_id |-> id,
                     time |-> ret'.instance.last_modified_millis,
                     enable |-> TRUE]
            /\ \A i \in 1 .. n :
                  timeinfos'[i] = IF timeinfos[i].instance_id = id
                                  THEN [timeinfos[i] EXCEPT !.enable = FALSE]
                                  ELSE timeinfos[i]
            /\ DOMAIN instances' = DOMAIN instances \cup {id}
            /\ \A x \in DOMAIN instances \ {id} :
                  heap'[instances'[x]].data = heap[instances[x]].data]_vars

\* an update has disabled the earlier record of its id
C17_Witness ==
    /\ ret.op = "update_instance"
    /\ ret.rtype = "UpdateTime"
    /\ Len(timeinfos) = 2
    /\ timeinfos[1].instance_id = ret.instance.id
    /\ ~timeinfos[1].enable
    /\ timeinfos[2].enable

\* the last op was an update_instance of id
Updated(id) == ret.op = "update_instance" /\ ret.instance.id = id

\* C18: with record times that do not decrease along timeinfos, an instance
\* whose last update carried time t is out of the healthy-only query after
\* a tick with healthy_time >= t and out of instances after a tick with
\* offline_time >= t; and as the ticks keep coming with thresholds that
\* reach every time, an instance that is in instances is eventually absent
\* or updated again: at any time there is a later one at which the id is
\* not in instances or has just been updated.
C18_TwoStageDecay ==
    /\ [](\A healthy_time \in Thresholds, offline_time \in Thresholds :
            healthy_time >= offline_time =>
              LET r == time_check(Self, healthy_time, offline_time) IN
                \A id \in DOMAIN instances :
                  LET t == Stored(Self, id).last_modified_millis IN
                    /\ t <= healthy_time =>
                          \A a \in get_all_instances(r.self, TRUE) :
                              r.self.heap[a].data.id # id
                    /\ t <= offline_time => id \notin DOMAIN r.self.instances)
    /\ \A id \in Ids : []<>(id \notin DOMAIN instances \/ Updated(id))

\* a tick has removed A, silent since time 1, and demoted B, silent since
\* time 2
C18_Witness ==
    /\ ret.op = "time_check"
    /\ ret.remove_list = <<"A">>
    /\ ret.update_list = <<"B">>
    /\ DOMAIN instances = {"B"}
    /\ ~Stored(Self, "B").healthy
    /\ Stored(Self, "B").last_modified_millis = 2

\* the positions of the enabled records of id
EnabledRecords(tis, id) ==
    {i \in DOMAIN tis : tis[i].instance_id = id /\ tis[i].enable}

\* C21: with record times that do not decrease along timeinfos, after any
\* sequence of update_instance and time_check calls every id in instances
\* has exactly one enabled record in timeinfos, and every record a
\* time_check drops is disabled or belongs to an instance that the same
\* call removes.
C21_OneEnabledRecordEach ==
    /\ \A id \in DOMAIN instances :
          Cardinality(EnabledRecords(timeinfos, id)) = 1
    /\ \A healthy_time \in Thresholds, offline_time \in Thresholds :
          healthy_time >= offline_time =>
            LET r == time_check(Self, healthy_time, offline_time)
                dropped == Len(timeinfos) - Len(r.self.timeinfos)
            IN  /\ r.self.timeinfos
                      = SubSeq(timeinfos, dropped + 1, Len(timeinfos))
                /\ \A i \in 1 .. dropped :
                      \/ ~timeinfos[i].enable
                      \/ /\ timeinfos[i].instance_id \in SeqSet(r.remove_list)
                         /\ timeinfos[i].instance_id \in DOMAIN instances
                         /\ timeinfos[i].instance_id
                               \notin DOMAIN r.self.instances
                /\ \A id \in DOMAIN r.self.instances :
                      Cardinality(EnabledRecords(r.self.timeinfos, id)) = 1

\* a tick has removed A and dropped its record; B, demoted by the same
\* tick, has kept its enabled record
C21_Witness ==
    /\ ret.op = "time_check"
    /\ ret.remove_list = <<"A">>
    /\ ret.update_list = <<"B">>
    /\ DOMAIN instances = {"B"}
    /\ EnabledRecords(timeinfos, "B") = {1}
    /\ EnabledRecords(timeinfos, "A") = {}

\* C22 as claimed: whatever the order of the timestamps, time_check never
\* drops the enabled record of an instance that is still in instances after
\* the call.
C22_LiveRecordKept ==
    \A healthy_time \in Thresholds, offline_time \in Thresholds :
        healthy_time >= offline_time =>
            LET r == time_check(Self, healthy_time, offline_time) IN
                \A id \in DOMAIN r.self.instances :
                    EnabledRecords(timeinfos, id) # {}
                        => EnabledRecords(r.self.timeinfos, id) # {}

\* Service after the step
SelfNext == Service(instances', timeinfos', instance_size', heap')

\* C23: update_instance stores the healthy flag of the supplied instance,
\* whatever the update tag and whatever the stored instance had; so after a
\* demotion a heartbeat that carries healthy and enabled puts the instance
\* back into the healthy-only query.
C23_HealthyFromSupplied ==
    [][ret'.op = "update_instance" =>
        LET id == ret'.instance.id IN
            /\ Stored(SelfNext, id).healthy = ret'.instance.healthy
            /\ (/\ id \in DOMAIN instances
                /\ ~Stored(Self, id).healthy
                /\ ret'.update_tag.some /\ is_none(ret'.update_tag)
                /\ ret'.instance.healthy /\ ret'.instance.enabled)
                  => instances'[id] \in get_all_instances(SelfNext, TRUE)]_vars

\* a heartbeat has put an instance back into the healthy-only query
C23_Witness ==
    /\ ret.op = "update_instance"
    /\ ret.rtype = "UpdateTime"
    /\ ret.instance.healthy /\ ret.instance.enabled
    /\ Len(timeinfos) = 2
    /\ ~timeinfos[1].enable
    /\ instances[ret.instance.id] \in get_all_instances(Self, TRUE)

----------------------------------------------------------------------------
(* Properties of the cache codec *)

\* C10 as claimed: a wire tag outside 1..4 is an error: from_data succeeds
\* exactly for the bytes 1..4, and the conversion of an envelope whose
\* cache_type is outside 1..4 fails.
C10_UnknownTagIsError ==
    /\ \A v \in 0 .. 255 : from_data(v).ok <=> v \in 1 .. 4
    /\ (out.op = "from_data" /\ out.v \notin 1 .. 4) => ~out.result.ok
    /\ (out.op = "try_from" /\ wire.cache_type \notin 1 .. 4) => ~out.result.ok

\* C11 as claimed: bytes encoded from a value of one variant and decoded
\* with another cache type are always a decode error.
C11_MismatchedTypeFails ==
    (out.op = "from_bytes" /\ out.cache_type # get_cache_type(out.value))
        => ~out.result.ok

\* C12: bytes encoded from a value and decoded with the value's own cache
\* type give back a value equal to it, for every variant, the empty string
\* and the empty map included.
C12_RoundTrip ==
    (out.op = "from_bytes" /\ out.cache_type = get_cache_type(out.value))
        => out.result = Ok(out.value)

\* the empty map has been encoded and decoded as a Map
C12_Witness ==
    /\ out.op = "from_bytes"
    /\ out.value = CacheValue("Map", <<>>)
    /\ out.cache_type = "Map"
    /\ out.result.ok

NoNul(s) == \A i \in DOMAIN s : s[i] # 0

\* C13: a key without a NUL byte is read back from its key string as it
\* was, and a stored key without a NUL byte is never parsed.
C13_KeyRoundTrip ==
    /\ (out.op = "from_db_key" /\ NoNul(out.db_key)) => ~out.result.ok
    /\ \A k \in CacheKeys :
          (out.op = "from_db_key" /\ NoNul(k.key)
              /\ out.db_key = to_key_string(k)) => out.result = Ok(k)

\* the key string of a key without NUL has been parsed
C13_Witness ==
    /\ out.op = "from_db_key"
    /\ out.result.ok
    /\ out.result.value = CacheKey("Map", <<97, 49>>)
    /\ out.db_key = to_key_string(out.result.value)

\* C14: the envelope made from a value carries the wire code of the
\* value's cache type, and the value converted back from that envelope is
\* of the same variant.
C14_EnvelopeTag ==
    [][/\ out'.op = "from" =>
            wire'.cache_type = get_type_data(get_cache_type(out'.value))
       /\ (out.op = "from" /\ out'.op = "try_from") =>
            /\ out'.result.ok
            /\ get_cache_type(out'.result.value) = get_cache_type(out.value)]_vars

\* a session has gone through its envelope and come back
C14_Witness ==
    /\ out.op = "try_from"
    /\ out.result.ok
    /\ get_cache_type(out.result.value) = "UserSession"
    /\ wire.cache_type = 3

\* the text before the first NUL byte of a stored key, and the bytes after it
KeyPrefix(db_key) ==
    SubSeq(db_key, 1, (CHOOSE i \in DOMAIN db_key :
                        db_key[i] = 0 /\ NoNul(SubSeq(db_key, 1, i - 1))) - 1)

KeyRest(db_key) ==
    SubSeq(db_key, Len(KeyPrefix(db_key)) + 2, Len(db_key))

\* a decimal byte: one to three digits, at most 255
DecimalByte(s) ==
    /\ s # <<>>
    /\ \A i \in DOMAIN s : s[i] \in 48 .. 57
    /\ DigitsValue(s) <= 255

\* C19 as claimed: a stored key is split on its first NUL byte only: it is
\* rejected without a NUL byte, with a prefix that is not a decimal byte or
\* with a type code outside 1..4, and a key that is parsed is everything
\* after the first NUL byte, with the type the prefix names.
C19_SplitOnFirstNul ==
    out.op = "from_db_key" =>
        IF NoNul(out.db_key) THEN ~out.result.ok
        ELSE IF ~DecimalByte(KeyPrefix(out.db_key)) THEN ~out.result.ok
        ELSE IF DigitsValue(KeyPrefix(out.db_key)) \notin 1 .. 4
             THEN ~out.result.ok
        ELSE out.result.ok =>
                /\ out.result.value.key = KeyRest(out.db_key)
                /\ get_type_data(out.result.value.cache_type)
                       = DigitsValue(KeyPrefix(out.db_key))

----------------------------------------------------------------------------
(* Properties of the login handler *)

\* the answers that let a login through
CaptchaPassed(l) ==
    /\ l.captcha_reply.kind = "Value"
    /\ l.captcha_reply.value.cache_type = "String"
    /\ l.captcha_reply.value.v = to_uppercase(l.request.captcha)

LimiterPassed(l) ==
    l.limiter_reply.kind = "Limiter" /\ l.limiter_reply.value

UserPassed(l) ==
    l.user_reply.kind = "CheckUserResult" /\ l.user_reply.value

\* an answer has come that is not the one that lets the login through
SomeReplyFailed(l) ==
    \/ l.captcha_reply.kind # "Pending" /\ ~CaptchaPassed(l)
    \/ l.limiter_reply.kind # "Pending" /\ ~LimiterPassed(l)
    \/ l.user_reply.kind # "Pending" /\ ~UserPassed(l)

\* C20: login answers with success, sends the session Set or sets the
\* token cookie only after the captcha Get returned the upper-cased code as
\* a String, the limiter admitted and the user check was valid, asked in
\* that order; after any other answer it has sent no Set and set no token
\* cookie, and its response is an error.
C20_LoginFailsClosed ==
    /\ (\/ login.response.kind = "success"
        \/ "token" \in login.response.cookies
        \/ \E i \in DOMAIN login.sent : login.sent[i] = "Set")
          => /\ CaptchaPassed(login)
             /\ LimiterPassed(login)
             /\ UserPassed(login)
             /\ login.sent = <<"Get", "Limiter", "CheckUser", "Set", "Remove">>
    /\ SomeReplyFailed(login)
          => /\ login.pc = "done"
             /\ login.response.kind = "error"
             /\ "token" \notin login.response.cookies
             /\ \A i \in DOMAIN login.sent : login.sent[i] # "Set"

\* a login has succeeded with a code typed in lower case
C20_Witness ==
    /\ login.response.kind = "success"
    /\ login.request.captcha = <<97, 98>>
    /\ "token" \in login.response.cookies

====
